---------------------------- MODULE Spec2Model ----------------------------
(***************************************************************************)
(* Model of miya9209-prog/misharp-gif-maker.                               *)
(*                                                                         *)
(*   gif_utils.py      in-process image -> GIF pipeline (Pillow)           *)
(*   video_utils.py    video -> GIF through two ffmpeg passes              *)
(*   app.py            Streamlit app driving ffmpeg for images and video   *)
(*   streamlit_app.py  Streamlit app calling gif_utils / video_utils       *)
(*                                                                         *)
(* Four specifications share the module:                                   *)
(*   SpecQuant  _build_palette_seed_from_frames / _quantize_safe           *)
(*   SpecImg    build_gif_from_images and the "GIF 만들기" handler          *)
(*   SpecCmd    the two ffmpeg command lines of every external encoder     *)
(*   SpecExt    the external encode requests: processes and files          *)
(* Each one leaves the variables of the others at Pending.                 *)
(***************************************************************************)
EXTENDS Integers, Sequences, FiniteSets, TLC

VARIABLES
    q_req,      \* arguments of one _build_palette_seed_from_frames call
    q_res,      \* its outcome: attempts made, palette returned or error raised
    img_req,    \* arguments of one build_gif_from_images request
    img_res,    \* its outcome: frames of every stage, bytes, None or error
    cmd_req,    \* configuration of one external two-pass encode
    cmd_res,    \* the palette-pass and apply-pass commands built for it
    sess,       \* per session: position in its encode request and outcome
    fs          \* the files that exist, each with the request that wrote it

quantv == <<q_req, q_res>>

imgv == <<img_req, img_res>>

cmdv == <<cmd_req, cmd_res>>

extv == <<sess, fs>>

vars == <<q_req, q_res, img_req, img_res, cmd_req, cmd_res, sess, fs>>

(***************************************************************************)
(* Generic helpers                                                         *)
(***************************************************************************)
Min(a, b) == IF a < b THEN a ELSE b

Max(a, b) == IF a > b THEN a ELSE b

SetMax(S) == CHOOSE m \in S : \A x \in S : x <= m

Range(s) == {s[i] : i \in 1..Len(s)}

SeqsUpTo(S, n) == UNION {[1..k -> S] : k \in 0..n}

(***************************************************************************)
(* Bounds of the model                                                     *)
(***************************************************************************)
\* longest frame list handed to the in-process pipeline
MaxFrames == 3

(***************************************************************************)
(* Sessions of the Streamlit process; each runs its script on its own      *)
(* thread, one request at a time.                                          *)
(***************************************************************************)
Sessions == {"s1", "s2"}

NoResult ==
    [kind |-> "none",
     error |-> [type |-> "None", stage |-> "-", diag |-> 0],
     bytes_by |-> "-"]

IdleSession ==
    [pc |-> "idle", req |-> [encoder |-> "-", via |-> "-"],
     passes |-> <<>>, result |-> NoResult]

(***************************************************************************)
(* gif_utils.py : _quantize_safe                                           *)
(***************************************************************************)
\* Upper and lower limit of the colour count (gif_utils.py:71 and :107).
MaxColors == 256

MinColors == 2

\* colors = 256 if colors > 256 else (2 if colors < 2 else int(colors))
ClampNoLower(colors) == IF colors > MaxColors THEN MaxColors ELSE colors

ClampColors(colors) ==
    IF colors > MaxColors THEN MaxColors
    ELSE IF colors < MinColors THEN MinColors ELSE colors

\* for name in ("LIBIMAGEQUANT", "FASTOCTREE", "MEDIANCUT")
MethodOrderOctreeFirst == <<"FASTOCTREE", "LIBIMAGEQUANT", "MEDIANCUT">>

MethodOrder == <<"LIBIMAGEQUANT", "FASTOCTREE", "MEDIANCUT">>

\* The engine default: im.quantize called with no method argument.
DefaultMethod == "DEFAULT"

\* What the runtime does with a strategy: the enum member may be missing
\* (getattr gives None), the call may raise, or it returns a palette image.
\* The default strategy is always there to call.
Behaviours == {"absent", "raises", "ok"}

QuantEnvs ==
    {e \in [Range(MethodOrder) \cup {DefaultMethod} -> Behaviours] :
        e[DefaultMethod] # "absent"}

NoErr == [type |-> "None", by |-> "-"]

\* The exception im.quantize raises for strategy m.
QuantizeError(m) == [type |-> "ValueError", by |-> m]

NoPalette == [colors |-> 0, method |-> "-", entries |-> 0]

\* im.quantize(colors=colors, method=m, dither=NONE) when it succeeds: a
\* palette image with at most `colors` entries (ncol: distinct colours of
\* the quantized image).
QuantizeOk(colors, m, ncol) ==
    [colors |-> colors, method |-> m, entries |-> Min(colors, ncol)]

Attempt(m, colors) == [method |-> m, colors |-> colors]

\* for m in methods: try: return im.quantize(...) except Exception as e:
\*     last_err = e; continue
RECURSIVE MethodLoopKeepFirst(_, _, _, _, _, _, _)
MethodLoopKeepFirst(methods, i, colors, ncol, env, attempts, last_err) ==
    IF i > Len(methods)
    THEN [returned |-> FALSE, palette |-> NoPalette,
          attempts |-> attempts, last_err |-> last_err]
    ELSE LET m == methods[i]
             att == Append(attempts, Attempt(m, colors))
         IN IF env[m] = "ok"
            THEN [returned |-> TRUE, palette |-> QuantizeOk(colors, m, ncol),
                  attempts |-> att, last_err |-> last_err]
            ELSE MethodLoopKeepFirst(methods, i + 1, colors, ncol, env, att,
                     IF last_err = NoErr THEN QuantizeError(m) ELSE last_err)

RECURSIVE MethodLoopBody(_, _, _, _, _, _, _)
MethodLoopBody(methods, i, colors, ncol, env, attempts, last_err) ==
    IF i > Len(methods)
    THEN [returned |-> FALSE, palette |-> NoPalette,
          attempts |-> attempts, last_err |-> last_err]
    ELSE LET m == methods[i]
             att == Append(attempts, Attempt(m, colors))
         IN IF env[m] = "ok"
            THEN [returned |-> TRUE, palette |-> QuantizeOk(colors, m, ncol),
                  attempts |-> att, last_err |-> last_err]
            ELSE MethodLoopBody(methods, i + 1, colors, ncol, env, att,
                                QuantizeError(m))

MethodLoop(methods, i, colors, ncol, env, attempts, last_err) ==
    MethodLoopBody(methods, i, colors, ncol, env, attempts, last_err)

\* raise RuntimeError(f"quantize failed. last={last_err!r}, final={e!r}") from e
QuantizeFailed(last_err, e) ==
    [type |-> "RuntimeError", last |-> last_err, final |-> e, cause |-> e]

NoFailure ==
    [type |-> "None", last |-> NoErr, final |-> NoErr, cause |-> NoErr]

\* _quantize_safe(im, colors): the attempts made in order, and either the
\* palette returned or the error raised.  A strategy whose enum member is
\* missing is left out of `methods` and never attempted.
QuantizeSafeWith(order, colors, ncol, env) ==
    LET c == ClampColors(colors)
        methods == SelectSeq(order, LAMBDA m : env[m] # "absent")
        loop == MethodLoop(methods, 1, c, ncol, env, <<>>, NoErr)
    IN IF loop.returned
       THEN [kind |-> "palette", palette |-> loop.palette,
             attempts |-> loop.attempts, error |-> NoFailure]
       ELSE LET att == Append(loop.attempts, Attempt(DefaultMethod, c))
            IN IF env[DefaultMethod] = "ok"
               THEN [kind |-> "palette",
                     palette |-> QuantizeOk(c, DefaultMethod, ncol),
                     attempts |-> att, error |-> NoFailure]
               ELSE [kind |-> "raised", palette |-> NoPalette,
                     attempts |-> att,
                     error |-> QuantizeFailed(loop.last_err,
                                              QuantizeError(DefaultMethod))]

QuantizeSafeOctreeFirst(colors, ncol, env) ==
    QuantizeSafeWith(MethodOrderOctreeFirst, colors, ncol, env)

QuantizeSafe(colors, ncol, env) ==
    QuantizeSafeWith(MethodOrder, colors, ncol, env)

(***************************************************************************)
(* gif_utils.py : frames and _build_palette_seed_from_frames               *)
(***************************************************************************)
\* A decoded frame: the image of the id-th supplied file on a canvas of
\* w x h pixels, its content pasted at offset (x, y).
Frame(id, w, h) == [id |-> id, w |-> w, h |-> h, x |-> 0, y |-> 0]

\* sample_count=12 : the call in build_gif_from_images
SampleCount == 12

\* list(range(0, n, step)) : 0, step, 2*step, ... below n
StepRange(n, step) == [k \in 1..((n + step - 1) \div step) |-> (k - 1) * step]

PicksNotTruncated(n, sample_count) ==
    IF n <= sample_count
    THEN [k \in 1..n |-> k - 1]
    ELSE StepRange(n, Max(1, n \div sample_count))

\* picks = list(range(n)) if n <= sample_count
\*         else list(range(0, n, max(1, n // sample_count)))[:sample_count]
Picks(n, sample_count) ==
    IF n <= sample_count
    THEN [k \in 1..n |-> k - 1]
    ELSE LET step == Max(1, n \div sample_count)
         IN SubSeq(StepRange(n, step), 1, sample_count)

\* stack = Image.new("RGB", (w, h * len(picks))) with w, h = frames[0].size;
\* frames[fi] is pasted at (0, idx * h).
PaletteStack(frames, picks) ==
    [w |-> frames[1].w,
     h |-> frames[1].h * Len(picks),
     parts |-> [k \in 1..Len(picks) |-> frames[picks[k] + 1]]]

NoStack == [w |-> 0, h |-> 0, parts |-> <<>>]

\* raise ValueError("frames empty")
FramesEmpty ==
    [type |-> "ValueError", last |-> NoErr, final |-> NoErr, cause |-> NoErr]

\* _build_palette_seed_from_frames(frames, colors, sample_count)
BuildPaletteSeed(frames, colors, sample_count, ncol, env) ==
    IF frames = <<>>
    THEN [kind |-> "raised", palette |-> NoPalette, attempts |-> <<>>,
          error |-> FramesEmpty, picks |-> <<>>, stack |-> NoStack]
    ELSE LET c == ClampColors(colors)
             picks == Picks(Len(frames), sample_count)
             q == QuantizeSafe(c, ncol, env)
         IN [kind |-> q.kind, palette |-> q.palette, attempts |-> q.attempts,
             error |-> q.error, picks |-> picks,
             stack |-> PaletteStack(frames, picks)]

(***************************************************************************)
(* SpecQuant : calls of _build_palette_seed_from_frames                    *)
(***************************************************************************)
\* Colour counts a caller may ask for, on both sides of the two limits.
ColorRequests == {-1, 0, 1, 2, 3, 64, 255, 256, 257, 1000}

\* Number of distinct colours of the stacked image.
ImageColours == {1, 300}

UnitFrames(n) == [i \in 1..n |-> Frame(i, 1, 1)]

\* A call not made yet.
Pending == [kind |-> "pending"]

\* The arguments of one call, drawn from the bounded input sets.
QInit ==
    /\ q_req \in [op : {"palette_seed"},
                  frames : {UnitFrames(n) : n \in 0..MaxFrames},
                  colors : ColorRequests,
                  ncol : ImageColours,
                  env : QuantEnvs]
    /\ q_res = Pending
    /\ img_req = Pending
    /\ img_res = Pending
    /\ cmd_req = Pending
    /\ cmd_res = Pending
    /\ sess = [s \in Sessions |-> IdleSession]
    /\ fs = {}

PaletteSeedCall ==
    /\ q_res = Pending
    /\ q_res' = BuildPaletteSeed(q_req.frames, q_req.colors, SampleCount,
                                 q_req.ncol, q_req.env)
    /\ UNCHANGED <<q_req, imgv, cmdv, extv>>

QNext == PaletteSeedCall

(***************************************************************************)
(* gif_utils.py : frame normalisation                                      *)
(***************************************************************************)
\* int(round(num / den)) : Python rounds a tie to the even neighbour.
RoundHalfEven(num, den) ==
    LET q == num \div den
        r == num % den
    IN IF 2 * r < den THEN q
       ELSE IF 2 * r > den THEN q + 1
       ELSE IF q % 2 = 0 THEN q ELSE q + 1

\* _resize_keep_aspect(img, max_width); max_width 0 stands for None, which
\* `if not max_width` treats alike.  Never enlarges.
ResizeKeepAspect(f, max_width) ==
    IF max_width = 0 THEN f
    ELSE IF f.w <= max_width THEN f
    ELSE [f EXCEPT !.w = max_width,
                   !.h = RoundHalfEven(f.h * max_width, f.w)]

\* _unify_canvas(frames): pad every frame onto the largest canvas
UnifyCanvasTopLeft(frames) ==
    IF frames = <<>> THEN frames
    ELSE LET max_w == SetMax({frames[i].w : i \in 1..Len(frames)})
             max_h == SetMax({frames[i].h : i \in 1..Len(frames)})
         IN [i \in 1..Len(frames) |->
                [frames[i] EXCEPT !.w = max_w, !.h = max_h]]

UnifyCanvas(frames) ==
    IF frames = <<>> THEN frames
    ELSE LET max_w == SetMax({frames[i].w : i \in 1..Len(frames)})
             max_h == SetMax({frames[i].h : i \in 1..Len(frames)})
         IN [i \in 1..Len(frames) |->
                IF frames[i].w = max_w /\ frames[i].h = max_h
                THEN frames[i]
                ELSE [id |-> frames[i].id, w |-> max_w, h |-> max_h,
                      x |-> (max_w - frames[i].w) \div 2,
                      y |-> (max_h - frames[i].h) \div 2]]

(***************************************************************************)
(* gif_utils.py : build_gif_from_images                                    *)
(***************************************************************************)
\* An uploaded file: an image of w x h pixels, or bytes Pillow cannot open.
ImageFile(w, h) == [ok |-> TRUE, w |-> w, h |-> h]

BadFile == [ok |-> FALSE, w |-> 0, h |-> 0]

FirstBadSkipped(files) == 0

\* Position of the first file that does not decode, 0 when all decode.
FirstBad(files) ==
    IF \E i \in 1..Len(files) : ~files[i].ok
    THEN CHOOSE i \in 1..Len(files) :
             ~files[i].ok /\ \A j \in 1..(i - 1) : files[j].ok
    ELSE 0

\* The loop over files: open, load, composite on white, resize, append.
DecodeAll(files, max_width) ==
    [i \in 1..Len(files) |->
        ResizeKeepAspect(Frame(i, files[i].w, files[i].h), max_width)]

LoopValueAlwaysZero(loop_forever) == 0

\* loop=0 if loop_forever else 1
LoopValue(loop_forever) == IF loop_forever THEN 0 ELSE 1

\* duration_ms = int(round(float(delay_sec) * 1000)), the delay being a
\* multiple of half a second (the slider's step)
DurationMs(delay_halves) == delay_halves * 500

\* disposal=2 : restore to background
Disposal == 2

NoSeed ==
    [kind |-> "none", palette |-> NoPalette, attempts |-> <<>>,
     error |-> NoFailure, picks |-> <<>>, stack |-> NoStack]

NoGif == [frames |-> <<>>, duration |-> 0, loop |-> 0, disposal |-> 0,
          optimize |-> FALSE, palette |-> NoPalette]

NoImgError == [type |-> "None", at |-> 0]

ImgOutcome(kind, err, decoded, normalized, frames, seed, gif) ==
    [kind |-> kind, error |-> err, decoded |-> decoded,
     normalized |-> normalized, frames |-> frames, seed |-> seed,
     gif |-> gif, ui |-> "-"]

\* The body of build_gif_from_images below the two empty-list returns.
\* `unified` is the frame list after the optional canvas unification.
EncodeFrames(normalized, unified, r) ==
    LET seed == BuildPaletteSeed(unified, r.colors, SampleCount, r.ncol,
                                 r.env)
    IN IF seed.kind = "raised"
       THEN ImgOutcome("raised", [type |-> seed.error.type, at |-> 0],
                       Len(normalized), normalized, unified, seed, NoGif)
       ELSE ImgOutcome("bytes", NoImgError, Len(normalized), normalized,
                       unified, seed,
                       [frames |-> unified,
                        duration |-> DurationMs(r.delay),
                        loop |-> LoopValue(r.loop_forever),
                        disposal |-> Disposal,
                        optimize |-> FALSE,
                        palette |-> seed.palette])

\* build_gif_from_images(files, delay_sec, loop_forever, unify_canvas,
\*                       max_width, colors, dither)
BuildGifFromImages(r) ==
    IF r.files = <<>>
    THEN ImgOutcome("none", NoImgError, 0, <<>>, <<>>, NoSeed, NoGif)
    ELSE IF FirstBad(r.files) # 0
    THEN ImgOutcome("raised",
                    [type |-> "UnidentifiedImageError",
                     at |-> FirstBad(r.files)],
                    FirstBad(r.files) - 1, <<>>, <<>>, NoSeed, NoGif)
    ELSE LET normalized == DecodeAll(r.files, r.max_width)
         IN EncodeFrames(normalized,
                IF r.unify_canvas THEN UnifyCanvas(normalized)
                ELSE normalized, r)

(***************************************************************************)
(* SpecImg : one image request, made by a direct call or by the            *)
(* "GIF 만들기" button of streamlit_app.py                                  *)
(***************************************************************************)
\* Sizes of the uploaded images (width, height).  Resized to width 2 they
\* give 2x1 (from 3x2, 4/3 rounded down) and 2x2 (from 4x3, the tie 1.5
\* rounded to even); none of them rounds to height 0.
Sizes == {<<1, 1>>, <<2, 1>>, <<3, 2>>, <<4, 3>>}

FileKinds == {ImageFile(s[1], s[2]) : s \in Sizes} \cup {BadFile}

\* max_width: 0 for "원본 유지" (None), or a width in pixels.
MaxWidthChoices == {0, 2}

\* Frame delays, in half seconds.
DelayChoices == {1, 20}

\* Runtimes for the whole pipeline: the advanced quantizer is not built
\* in; the other strategies all work or all fail.
ImgEnvs ==
    {e \in QuantEnvs : /\ e["LIBIMAGEQUANT"] = "raises"
                       /\ e["FASTOCTREE"] = e["DEFAULT"]
                       /\ e["MEDIANCUT"] = e["DEFAULT"]}

ImgRequests ==
    [via : {"call", "button"},
     files : SeqsUpTo(FileKinds, MaxFrames),
     delay : DelayChoices,
     loop_forever : BOOLEAN,
     unify_canvas : BOOLEAN,
     max_width : MaxWidthChoices,
     colors : {64},
     ncol : {300},
     env : ImgEnvs]

\* The button is only drawn while st.session_state.uploaded_items is not
\* empty (streamlit_app.py:141).
ImgInit ==
    /\ img_req \in {r \in ImgRequests : r.via = "button" => r.files # <<>>}
    /\ img_res = Pending
    /\ q_req = Pending
    /\ q_res = Pending
    /\ cmd_req = Pending
    /\ cmd_res = Pending
    /\ sess = [s \in Sessions |-> IdleSession]
    /\ fs = {}

\* A direct call of build_gif_from_images.
BuildGifCall ==
    /\ img_res = Pending
    /\ img_req.via = "call"
    /\ img_res' = BuildGifFromImages(img_req)
    /\ UNCHANGED <<img_req, quantv, cmdv, extv>>

\* if st.button("GIF 만들기"): gif_bytes = build_gif_from_images(...);
\* if not gif_bytes: st.error(...) else: st.success, st.image, download.
\* An exception of the call is not caught by the handler.
ImgMakeButton ==
    /\ img_res = Pending
    /\ img_req.via = "button"
    /\ LET out == BuildGifFromImages(img_req)
       IN img_res' = [out EXCEPT !.ui =
                         IF out.kind = "raised" THEN "exception"
                         ELSE IF out.kind = "none" THEN "error"
                         ELSE "download"]
    /\ UNCHANGED <<img_req, quantv, cmdv, extv>>

ImgNext == BuildGifCall \/ ImgMakeButton

SpecImg == ImgInit /\ [][ImgNext]_vars

SpecQuant == QInit /\ [][QNext]_vars

(***************************************************************************)
(* External encoders: the ffmpeg command lines                             *)
(*                                                                         *)
(* Times are counted in half seconds (the step of the number inputs).      *)
(* A command line is a record of its parts in argv order:                  *)
(*   pre     options before the first -i (-ss, -framerate)                 *)
(*   input   the first -i                                                  *)
(*   post    options after the first -i (-t, -to)                          *)
(*   extra   further inputs (-i palette)                                   *)
(*   prefix  the fps/scale/pad stages that open the filter expression      *)
(*   stage   the palettegen or paletteuse stage that closes it             *)
(*   loop    the -loop option, and out the output path                     *)
(***************************************************************************)
\* Optional[float]
None == [some |-> FALSE, v |-> 0]

Some(v) == [some |-> TRUE, v |-> v]

Opt(flag, v) == [flag |-> flag, v |-> v]

Path(dir, name) == [dir |-> dir, name |-> name]

Stage(op, n, arg) == [op |-> op, n |-> n, arg |-> arg]

Command(pre, input, post, extra, vf, prefix, stage, loop, out) ==
    [prog |-> "ffmpeg", pre |-> pre, input |-> input, post |-> post,
     extra |-> extra, vf |-> vf, prefix |-> prefix, stage |-> stage,
     loop |-> loop, out |-> out]

(***************************************************************************)
(* video_utils.py : build_gif_from_video_ffmpeg                            *)
(***************************************************************************)
\* ss = ["-ss", str(start_sec)] if start_sec is not None and start_sec >= 0
VideoSeek(start_sec) ==
    IF start_sec.some /\ start_sec.v >= 0
    THEN <<Opt("-ss", start_sec.v)>>
    ELSE <<>>

\* dur = ["-t", str(end_sec - start_sec)] / ["-to", str(end_sec)] / []
VideoDuration(start_sec, end_sec) ==
    IF end_sec.some /\ start_sec.some /\ end_sec.v > start_sec.v
    THEN <<Opt("-t", end_sec.v - start_sec.v)>>
    ELSE IF end_sec.some /\ ~start_sec.some /\ end_sec.v > 0
    THEN <<Opt("-to", end_sec.v)>>
    ELSE <<>>

\* scale_filter; max_width 0 stands for None (both are falsy)
VideoScale(max_width) ==
    IF max_width # 0
    THEN Stage("scale", max_width, "-1:flags=lanczos")
    ELSE Stage("scale", 0, "iw:ih:flags=lanczos")

\* dither_mode = "floyd_steinberg" if dither == "floyd" else "none"
VideoDither(dither) == IF dither = "floyd" THEN "floyd_steinberg" ELSE "none"

\* loop_flag = 0 if loop_forever else 1
VideoLoopFlag(loop_forever) == IF loop_forever THEN 0 ELSE 1

\* cmd_palette
VideoCmdPalette(c, td) ==
    Command(VideoSeek(c.start_sec),
            Path(td, "input_video.mp4"),
            VideoDuration(c.start_sec, c.end_sec),
            <<>>,
            "-vf",
            <<Stage("fps", c.fps, ""), VideoScale(c.max_width)>>,
            Stage("palettegen", c.colors, "stats_mode=full"),
            <<>>,
            Path(td, "palette.png"))

\* cmd_gif
VideoCmdGifNoSeek(c, td) ==
    Command(<<>>,
            Path(td, "input_video.mp4"),
            VideoDuration(c.start_sec, c.end_sec),
            <<Path(td, "palette.png")>>,
            "-lavfi",
            <<Stage("fps", c.fps, ""), VideoScale(c.max_width)>>,
            Stage("paletteuse", 0, VideoDither(c.dither)),
            <<Opt("-loop", VideoLoopFlag(c.loop_forever))>>,
            Path(td, "output.gif"))

VideoCmdGif(c, td) ==
    Command(VideoSeek(c.start_sec),
            Path(td, "input_video.mp4"),
            VideoDuration(c.start_sec, c.end_sec),
            <<Path(td, "palette.png")>>,
            "-lavfi",
            <<Stage("fps", c.fps, ""), VideoScale(c.max_width)>>,
            Stage("paletteuse", 0, VideoDither(c.dither)),
            <<Opt("-loop", VideoLoopFlag(c.loop_forever))>>,
            Path(td, "output.gif"))

(***************************************************************************)
(* app.py : make_gif_from_frames and make_gif_from_video                   *)
(***************************************************************************)
\* scale, then pad to a square when pad_square is set (vf1)
AppScalePad(c) ==
    IF c.pad_square
    THEN <<Stage("scale", c.width, "-1:flags=lanczos"),
           Stage("pad", c.width, c.pad_color)>>
    ELSE <<Stage("scale", c.width, "-1:flags=lanczos")>>

\* loop_value = "0" if loop_infinite else "-1"
AppLoopValue(loop_infinite) == IF loop_infinite THEN 0 ELSE -1

\* ext = os.path.splitext(it.name)[1].lower(), ".png" unless an image one
Lower(ext) ==
    CASE ext = ".PNG" -> ".png"
      [] ext = ".JPG" -> ".jpg"
      [] OTHER -> ext

FrameExt(ext) ==
    IF Lower(ext) \in {".png", ".jpg", ".jpeg", ".webp"}
    THEN Lower(ext) ELSE ".png"

\* first_ext: the extension given to the first frame, ".png" with no frame
FirstExt(exts) == IF exts = <<>> THEN ".png" ELSE FrameExt(exts[1])

\* pattern = os.path.join(tmp, f"%04d{first_ext}")
FramesPattern(c, tmp) == Path(tmp, "%04d" \o FirstExt(c.exts))

\* make_gif_from_frames: the palette command
FramesCmdPalette(c, tmp) ==
    Command(<<Opt("-framerate", c.framerate)>>,
            FramesPattern(c, tmp),
            <<>>,
            <<>>,
            "-vf",
            AppScalePad(c),
            Stage("palettegen", c.colors, ""),
            <<>>,
            Path(tmp, "palette.png"))

\* make_gif_from_frames: the GIF command
FramesCmdGif(c, tmp, out_path) ==
    Command(<<Opt("-framerate", c.framerate)>>,
            FramesPattern(c, tmp),
            <<>>,
            <<Path(tmp, "palette.png")>>,
            "-lavfi",
            AppScalePad(c),
            Stage("paletteuse", 0, c.dither),
            <<Opt("-loop", AppLoopValue(c.loop_infinite))>>,
            out_path)

\* ss_args = ["-ss", f"{start_sec:.3f}"] if start_sec and start_sec > 0
AppSeek(start_sec) ==
    IF start_sec # 0 /\ start_sec > 0 THEN <<Opt("-ss", start_sec)>> ELSE <<>>

\* t_args = ["-t", f"{duration_sec:.3f}"] if duration_sec and duration_sec > 0
AppDuration(duration_sec) ==
    IF duration_sec # 0 /\ duration_sec > 0
    THEN <<Opt("-t", duration_sec)>> ELSE <<>>

\* vf_base = fps, scale and the optional pad
AppVideoBase(c) == <<Stage("fps", c.fps, "")>> \o AppScalePad(c)

\* make_gif_from_video: the palette command
AppVideoCmdPalette(c, tmp) ==
    Command(AppSeek(c.start_sec),
            Path(tmp, "input_video"),
            AppDuration(c.duration_sec),
            <<>>,
            "-vf",
            AppVideoBase(c),
            Stage("palettegen", c.colors, ""),
            <<>>,
            Path(tmp, "palette.png"))

\* make_gif_from_video: the GIF command
AppVideoCmdGif(c, tmp, out_path) ==
    Command(AppSeek(c.start_sec),
            Path(tmp, "input_video"),
            AppDuration(c.duration_sec),
            <<Path(tmp, "palette.png")>>,
            "-lavfi",
            AppVideoBase(c),
            Stage("paletteuse", 0, c.dither),
            <<Opt("-loop", AppLoopValue(c.loop_infinite))>>,
            out_path)

\* build_output_path("misharp"): one fixed name in the system temp directory
OutputPath == Path("gettempdir", "misharp_output.gif")

\* The two commands an encoder builds for configuration c, its temporary
\* directory being tmp.
PaletteCommand(c, tmp) ==
    CASE c.encoder = "video_utils" -> VideoCmdPalette(c, tmp)
      [] c.encoder = "app_frames" -> FramesCmdPalette(c, tmp)
      [] c.encoder = "app_video" -> AppVideoCmdPalette(c, tmp)

GifCommand(c, tmp) ==
    CASE c.encoder = "video_utils" -> VideoCmdGif(c, tmp)
      [] c.encoder = "app_frames" -> FramesCmdGif(c, tmp, OutputPath)
      [] c.encoder = "app_video" -> AppVideoCmdGif(c, tmp, OutputPath)

(***************************************************************************)
(* SpecCmd : the command lines over the configurations                     *)
(***************************************************************************)
\* Clip limits in half seconds; None is the clip switch turned off.
ClipTimes == {None, Some(-1), Some(0), Some(2), Some(6)}

VideoConfigs ==
    [encoder : {"video_utils"},
     fps : {5, 12},
     max_width : {0, 450},
     loop_forever : BOOLEAN,
     start_sec : ClipTimes,
     end_sec : ClipTimes,
     colors : {64, 256},
     dither : {"floyd", "none"}]

\* Frame rates as the handler formats them: "12", "2/3" (num, den).
Framerates == {<<12, 1>>, <<2, 3>>}

FrameExts == {".png", ".PNG", ".jpg", ".gif"}

FramesConfigs ==
    [encoder : {"app_frames"},
     exts : SeqsUpTo(FrameExts, 2),
     width : {300, 900},
     framerate : Framerates,
     colors : {64, 256},
     dither : {"sierra2_4a", "bayer"},
     pad_square : BOOLEAN,
     pad_color : {"white", "#f6f6f6"},
     loop_infinite : BOOLEAN]

AppVideoConfigs ==
    [encoder : {"app_video"},
     width : {300, 900},
     fps : {1, 12},
     colors : {64, 256},
     dither : {"sierra2_4a", "bayer"},
     pad_square : BOOLEAN,
     pad_color : {"white", "#f6f6f6"},
     start_sec : {0, 3},
     duration_sec : {0, 4},
     loop_infinite : BOOLEAN]

CmdInit ==
    /\ cmd_req \in VideoConfigs \cup FramesConfigs \cup AppVideoConfigs
    /\ cmd_res = Pending
    /\ q_req = Pending
    /\ q_res = Pending
    /\ img_req = Pending
    /\ img_res = Pending
    /\ sess = [s \in Sessions |-> IdleSession]
    /\ fs = {}

BuildCommands ==
    /\ cmd_res = Pending
    /\ cmd_res' = [kind |-> "built",
                   palette |-> PaletteCommand(cmd_req, "tmp"),
                   gif |-> GifCommand(cmd_req, "tmp")]
    /\ UNCHANGED <<cmd_req, quantv, imgv, extv>>

CmdNext == BuildCommands

SpecCmd == CmdInit /\ [][CmdNext]_vars

(***************************************************************************)
(* External encode requests: processes and files                           *)
(***************************************************************************)
\* tempfile.mkdtemp() / tempfile.TemporaryDirectory(): a directory no
\* other live request has; named after the session that holds it.
TmpDir(s) == "tmp_" \o s

File(path, s) == [path |-> path, by |-> s]

\* open(path, "wb").write(...), or ffmpeg -y writing its output: the file
\* at that path is replaced.
WriteFile(files, path, s) ==
    {f \in files : f.path # path} \cup {File(path, s)}

\* shutil.rmtree(tmp, ignore_errors=True) / TemporaryDirectory.__exit__
RmTree(files, dir) == {f \in files : f.path.dir # dir}

Exists(files, path) == \E f \in files : f.path = path

\* The request whose bytes the file at path holds.
WrittenBy(files, path) == (CHOOSE f \in files : f.path = path).by

\* fp = os.path.join(tmp, f"{i:04d}{ext}"), i counting from 0
FrameFileName(i, ext) == "000" \o ToString(i) \o FrameExt(ext)

\* The input copies a request writes into its temporary directory.
InputFiles(r, tmp) ==
    CASE r.encoder = "video_utils" -> {Path(tmp, "input_video.mp4")}
      [] r.encoder = "app_video" -> {Path(tmp, "input_video")}
      [] r.encoder = "app_frames" ->
            {Path(tmp, FrameFileName(i - 1, r.c.exts[i])) :
                i \in 1..Len(r.c.exts)}

\* The directory and the input copies, as the request leaves them when
\* every write succeeds.
WithInputs(files, r, s) ==
    files \cup {File(Path(TmpDir(s), "."), s)}
          \cup {File(p, s) : p \in InputFiles(r, TmpDir(s))}

\* Longest tail of stderr that run_cmd puts in its RuntimeError
\* ((p.stderr or "")[-4000:]).
StderrKept == 4000

\* What a failed pass raises.  subprocess.run(check=True) raises
\* CalledProcessError holding all captured output; run_cmd raises
\* RuntimeError holding the tail of stderr.
PassError(encoder, stage, stderr_len) ==
    IF encoder = "video_utils"
    THEN [type |-> "CalledProcessError", stage |-> stage,
          diag |-> stderr_len]
    ELSE [type |-> "RuntimeError", stage |-> stage,
          diag |-> Min(stderr_len, StderrKept)]

\* if p.returncode != 0: raise ... / check=True
PassRaisesNever(exit) == FALSE

PassRaises(exit) == exit # 0

Failed(err) == [kind |-> "error", error |-> err, bytes_by |-> "-"]

Rejected(why) == Failed([type |-> why, stage |-> "-", diag |-> 0])

Invoked(stage, cmd, exit, stderr_len) ==
    [stage |-> stage, cmd |-> cmd, exit |-> exit, stderr |-> stderr_len]

\* Lengths of the stderr a failing ffmpeg leaves.
StderrLens == {0, 7, 4001}

(***************************************************************************)
(* Requests of SpecExt                                                     *)
(***************************************************************************)
VideoDefault ==
    [encoder |-> "video_utils", fps |-> 8, max_width |-> 450,
     loop_forever |-> TRUE, start_sec |-> None, end_sec |-> None,
     colors |-> 64, dither |-> "none"]

\* Clip windows (start, end) in half seconds: none, a proper one, an empty
\* one and a reversed one.
ClipWindows ==
    {<<None, None>>, <<Some(0), Some(6)>>, <<Some(2), Some(2)>>,
     <<Some(4), Some(2)>>}

VideoRequests ==
    {[encoder |-> "video_utils", via |-> via,
      c |-> [VideoDefault EXCEPT !.start_sec = w[1], !.end_sec = w[2]]] :
        via \in {"call", "button"}, w \in ClipWindows}

FramesDefault ==
    [encoder |-> "app_frames", exts |-> <<>>, width |-> 900,
     framerate |-> <<12, 1>>, colors |-> 256, dither |-> "sierra2_4a",
     pad_square |-> FALSE, pad_color |-> "white", loop_infinite |-> TRUE]

\* st.session_state.frames, by the extensions of the uploaded names
FrameLists ==
    {<<>>, <<".png">>, <<".png", ".png">>, <<".jpg", ".png", ".PNG">>}

FramesRequests ==
    {[encoder |-> "app_frames", via |-> "button",
      c |-> [FramesDefault EXCEPT !.exts = e]] : e \in FrameLists}

AppVideoDefault ==
    [encoder |-> "app_video", width |-> 900, fps |-> 12, colors |-> 256,
     dither |-> "sierra2_4a", pad_square |-> FALSE, pad_color |-> "white",
     start_sec |-> 0, duration_sec |-> 4, loop_infinite |-> TRUE]

\* has_video: st.session_state.video_file is set
AppVideoRequests ==
    {[encoder |-> "app_video", via |-> "button", has_video |-> h,
      c |-> AppVideoDefault] : h \in BOOLEAN}

CanBegin(s) == sess[s].pc \in {"idle", "done"}

\* The request starts: temporary directory made, inputs written.  A
\* failing write raises OSError; the finally clause / the with block
\* removes the directory on the way out.
Started(s, r, write_ok) ==
    IF write_ok
    THEN /\ sess' = [sess EXCEPT ![s] =
                        [pc |-> "palette", req |-> r, passes |-> <<>>,
                         result |-> NoResult]]
         /\ fs' = WithInputs(fs, r, s)
    ELSE /\ sess' = [sess EXCEPT ![s] =
                        [pc |-> "done", req |-> r, passes |-> <<>>,
                         result |-> Rejected("OSError")]]
         /\ fs' = RmTree(fs, TmpDir(s))

\* The handler answers st.error(...) without starting anything.
Refused(s, r, why) ==
    /\ sess' = [sess EXCEPT ![s] =
                   [pc |-> "done", req |-> r, passes |-> <<>>,
                    result |-> Rejected(why)]]
    /\ UNCHANGED fs

\* A direct call of build_gif_from_video_ffmpeg(video_bytes, ...).
VideoCall(s) ==
    /\ CanBegin(s)
    /\ \E r \in VideoRequests, write_ok \in BOOLEAN :
          /\ r.via = "call"
          /\ Started(s, r, write_ok)
    /\ UNCHANGED <<quantv, imgv, cmdv>>

\* streamlit_app.py, "동영상 GIF 만들기": with the clip switch on and
\* end <= start the handler shows an error; else it calls
\* build_gif_from_video_ffmpeg, start and end being None with the switch
\* off.  The number inputs keep start >= 0 and end >= 0.5.
ClipRejected(c) ==
    c.start_sec.some /\ c.end_sec.v <= c.start_sec.v

VidMakeButton(s) ==
    /\ CanBegin(s)
    /\ \E r \in VideoRequests, write_ok \in BOOLEAN :
          /\ r.via = "button"
          /\ IF ClipRejected(r.c)
             THEN Refused(s, r, "ClipWindow")
             ELSE Started(s, r, write_ok)
    /\ UNCHANGED <<quantv, imgv, cmdv>>

\* app.py, "GIF 생성하기" with 이미지(프레임): fewer than 2 frames are
\* refused, else make_gif_from_frames runs.
AppGenerateFrames(s) ==
    /\ CanBegin(s)
    /\ \E r \in FramesRequests, write_ok \in BOOLEAN :
          IF Len(r.c.exts) < 2
          THEN Refused(s, r, "TooFewFrames")
          ELSE Started(s, r, write_ok)
    /\ UNCHANGED <<quantv, imgv, cmdv>>

\* app.py, "GIF 생성하기" with 동영상: no uploaded video is refused, else
\* make_gif_from_video runs.
AppGenerateVideo(s) ==
    /\ CanBegin(s)
    /\ \E r \in AppVideoRequests, write_ok \in BOOLEAN :
          IF ~r.has_video
          THEN Refused(s, r, "NoVideo")
          ELSE Started(s, r, write_ok)
    /\ UNCHANGED <<quantv, imgv, cmdv>>

\* The first external process: subprocess.run(cmd_palette, check=True) or
\* run_cmd([... palettegen ...]).  The session blocks until it exits.
PalettePass(s) ==
    /\ sess[s].pc = "palette"
    /\ \E exit \in {0, 1}, stderr_len \in StderrLens :
          LET r == sess[s].req
              cmd == PaletteCommand(r.c, TmpDir(s))
              run == Invoked("palette", cmd, exit,
                             IF exit = 0 THEN 0 ELSE stderr_len)
          IN IF PassRaises(exit)
             THEN /\ sess' = [sess EXCEPT
                       ![s].pc = "done",
                       ![s].passes = Append(@, run),
                       ![s].result =
                           Failed(PassError(r.encoder, "palette",
                                            stderr_len))]
                  /\ fs' = RmTree(fs, TmpDir(s))
             ELSE /\ sess' = [sess EXCEPT
                       ![s].pc = "apply",
                       ![s].passes = Append(@, run)]
                  /\ fs' = IF exit = 0 THEN WriteFile(fs, cmd.out, s)
                           ELSE fs
    /\ UNCHANGED <<quantv, imgv, cmdv>>

\* The second external process.  make_gif_from_frames / make_gif_from_video
\* return through their finally clause, which removes the directory;
\* build_gif_from_video_ffmpeg goes on to read the output inside the with.
ApplyPass(s) ==
    /\ sess[s].pc = "apply"
    /\ \E exit \in {0, 1}, stderr_len \in StderrLens :
          LET r == sess[s].req
              cmd == GifCommand(r.c, TmpDir(s))
              run == Invoked("gif", cmd, exit,
                             IF exit = 0 THEN 0 ELSE stderr_len)
              written == IF exit = 0 THEN WriteFile(fs, cmd.out, s) ELSE fs
          IN IF PassRaises(exit)
             THEN /\ sess' = [sess EXCEPT
                       ![s].pc = "done",
                       ![s].passes = Append(@, run),
                       ![s].result =
                           Failed(PassError(r.encoder, "gif", stderr_len))]
                  /\ fs' = RmTree(written, TmpDir(s))
             ELSE /\ sess' = [sess EXCEPT
                       ![s].pc = "read",
                       ![s].passes = Append(@, run)]
                  /\ fs' = IF r.encoder = "video_utils" THEN written
                           ELSE RmTree(written, TmpDir(s))
    /\ UNCHANGED <<quantv, imgv, cmdv>>

\* with open(out_path, "rb") as f: return f.read()   (video_utils.py), or
\* st.image(out_gif); open(out_gif, "rb") -> download   (app.py).
\* A missing file raises FileNotFoundError.
ReadOutput(s) ==
    /\ sess[s].pc = "read"
    /\ LET r == sess[s].req
           out == GifCommand(r.c, TmpDir(s)).out
       IN /\ sess' = [sess EXCEPT
                 ![s].pc = "done",
                 ![s].result =
                     IF Exists(fs, out)
                     THEN [kind |-> "bytes", error |-> NoResult.error,
                           bytes_by |-> WrittenBy(fs, out)]
                     ELSE Rejected("FileNotFoundError")]
          /\ fs' = RmTree(fs, TmpDir(s))
    /\ UNCHANGED <<quantv, imgv, cmdv>>

ExtInit ==
    /\ sess = [s \in Sessions |-> IdleSession]
    /\ fs = {}
    /\ q_req = Pending
    /\ q_res = Pending
    /\ img_req = Pending
    /\ img_res = Pending
    /\ cmd_req = Pending
    /\ cmd_res = Pending

ExtNext ==
    \E s \in Sessions :
        \/ VideoCall(s)
        \/ VidMakeButton(s)
        \/ AppGenerateFrames(s)
        \/ AppGenerateVideo(s)
        \/ PalettePass(s)
        \/ ApplyPass(s)
        \/ ReadOutput(s)

SpecExt == ExtInit /\ [][ExtNext]_vars

(***************************************************************************)
(* Claims about the quantization fallback chain (SpecQuant)                *)
(***************************************************************************)
QuantCalled == q_res.kind # "pending" /\ q_req.frames # <<>>

\* The chain as the documentation orders it, without the strategies the
\* runtime does not have.
ClaimedChain(env) ==
    SelectSeq(<<"LIBIMAGEQUANT", "FASTOCTREE", "MEDIANCUT", "DEFAULT">>,
              LAMBDA m : env[m] # "absent")

FirstOk(chain, env) ==
    CHOOSE i \in 1..Len(chain) :
        /\ env[chain[i]] = "ok"
        /\ \A j \in 1..(i - 1) : env[chain[j]] # "ok"

\* C3: the strategies are attempted in the order LIBIMAGEQUANT, FASTOCTREE,
\* MEDIANCUT, engine default; every attempt but the last one failed, so
\* nothing is attempted after a success; and when some strategy of the
\* chain can succeed, a palette is returned, made by the first such
\* strategy in that order.
QuantFallbackOrder ==
    QuantCalled =>
        LET env == q_req.env
            chain == ClaimedChain(env)
            att == q_res.attempts
        IN /\ Len(att) >= 1 /\ Len(att) <= Len(chain)
           /\ \A i \in 1..Len(att) : att[i].method = chain[i]
           /\ \A i \in 1..(Len(att) - 1) : env[att[i].method] # "ok"
           /\ (\E i \in 1..Len(chain) : env[chain[i]] = "ok") =>
                 /\ q_res.kind = "palette"
                 /\ q_res.palette.method = chain[FirstOk(chain, env)]
                 /\ att[Len(att)].method = q_res.palette.method
                 /\ Len(att) = FirstOk(chain, env)

\* The advanced quantizer raises, the octree one works.
QuantFallbackWitness ==
    /\ QuantCalled
    /\ q_req.env["LIBIMAGEQUANT"] = "raises"
    /\ q_req.env["FASTOCTREE"] = "ok"
    /\ q_res.kind = "palette"
    /\ q_res.palette.method = "FASTOCTREE"
    /\ Len(q_res.attempts) = 2

AllFail(env) == \A i \in 1..Len(ClaimedChain(env)) :
                    env[ClaimedChain(env)[i]] # "ok"

CausesCarried(err) == {err.last.by, err.final.by, err.cause.by}

\* C4 as stated: when every strategy fails, the error raised carries the
\* failure cause of every attempted strategy, and no palette is returned.
QuantErrorCarriesEveryCause ==
    (QuantCalled /\ AllFail(q_req.env)) =>
        /\ q_res.kind = "raised"
        /\ q_res.palette = NoPalette
        /\ \A i \in 1..Len(q_res.attempts) :
              q_res.attempts[i].method \in CausesCarried(q_res.error)

\* C4 amended: when every strategy fails, a RuntimeError is raised and no
\* palette is returned; the error carries two causes only, that of the
\* engine-default attempt (also its __cause__) and that of the last
\* explicit strategy attempted (None when the runtime has none).
QuantErrorCarriesLastAndFinal ==
    (QuantCalled /\ AllFail(q_req.env)) =>
        LET att == q_res.attempts
            n == Len(att)
        IN /\ q_res.kind = "raised"
           /\ q_res.palette = NoPalette
           /\ q_res.error.type = "RuntimeError"
           /\ n = Len(ClaimedChain(q_req.env))
           /\ q_res.error.final = [type |-> "ValueError", by |-> "DEFAULT"]
           /\ q_res.error.cause = q_res.error.final
           /\ q_res.error.last =
                 IF n = 1 THEN [type |-> "None", by |-> "-"]
                 ELSE [type |-> "ValueError", by |-> att[n - 1].method]

\* All four strategies were attempted and all raised.
QuantAllFailWitness ==
    /\ QuantCalled
    /\ AllFail(q_req.env)
    /\ Len(q_res.attempts) = 4
    /\ q_res.kind = "raised"
    /\ q_res.error.last.by = "MEDIANCUT"

\* C7: the colour count of every quantization attempt is the request
\* clamped into [2, 256], and a palette returned has no more entries.
QuantColorsClamped ==
    QuantCalled =>
        LET r == q_req.colors
            Clamped(c) == /\ r < 2 => c = 2
                          /\ r > 256 => c = 256
                          /\ (r >= 2 /\ r <= 256) => c = r
        IN /\ \A i \in 1..Len(q_res.attempts) :
                 Clamped(q_res.attempts[i].colors)
           /\ q_res.kind = "palette" =>
                 /\ Clamped(q_res.palette.colors)
                 /\ q_res.palette.entries <= q_res.palette.colors
                 /\ q_res.palette.entries >= 1

\* A request below the lower limit whose palette was built with 2 colours.
QuantColorsClampedWitness ==
    /\ QuantCalled
    /\ q_req.colors < 2
    /\ q_res.kind = "palette"
    /\ q_res.palette.colors = 2
    /\ q_res.palette.entries = 2

(***************************************************************************)
(* Claims about build_gif_from_images (SpecImg)                            *)
(***************************************************************************)
ImgDone == img_res.kind # "pending"

SameSize(frames) ==
    \A i, j \in 1..Len(frames) :
        frames[i].w = frames[j].w /\ frames[i].h = frames[j].h

\* C1: a request with fewer than 2 frames ends with an error and without
\* output bytes.
ImgFewerThanTwoNoBytes ==
    (ImgDone /\ Len(img_req.files) < 2) =>
        /\ img_res.kind # "bytes"
        /\ img_res.ui # "download"

\* C5: with unify_canvas set, every frame handed on has the largest width
\* and the largest height of the resized frames, the frames are as many
\* and in the same order, and each one's content sits centred.
CanvasUnified ==
    (ImgDone /\ img_req.unify_canvas /\ img_res.normalized # <<>>) =>
        LET N == img_res.normalized
            F == img_res.frames
            maxW == SetMax({N[i].w : i \in 1..Len(N)})
            maxH == SetMax({N[i].h : i \in 1..Len(N)})
        IN /\ Len(F) = Len(N)
           /\ Len(N) = Len(img_req.files)
           /\ \A i \in 1..Len(F) :
                 /\ F[i].id = i /\ N[i].id = i
                 /\ F[i].w = maxW
                 /\ F[i].h = maxH
                 /\ F[i].x = (maxW - N[i].w) \div 2
                 /\ F[i].y = (maxH - N[i].h) \div 2
           /\ \A k \in 1..Len(img_res.seed.stack.parts) :
                 /\ img_res.seed.stack.parts[k].w = maxW
                 /\ img_res.seed.stack.parts[k].h = maxH
           /\ img_res.kind = "bytes" => img_res.gif.frames = F

\* Frames of different sizes were encoded, one of them padded on both axes.
CanvasUnifiedWitness ==
    /\ ImgDone
    /\ img_req.unify_canvas
    /\ img_res.kind = "bytes"
    /\ ~SameSize(img_res.normalized)
    /\ \E i \in 1..Len(img_res.frames) :
          img_res.frames[i].x > 0 /\ img_res.frames[i].y > 0

\* C6: whatever the configuration, the frames handed to the palette
\* builder and to the GIF assembler all have one width and one height.
FramesShareOneSize ==
    ImgDone =>
        /\ SameSize(img_res.frames)
        /\ SameSize(img_res.seed.stack.parts)
        /\ SameSize(img_res.gif.frames)

(***************************************************************************)
(* Claims about the command lines (SpecCmd)                                *)
(***************************************************************************)
CmdBuilt == cmd_res.kind = "built"

\* C8: the palette pass and the apply pass get the same filter prefix, the
\* same input and the same clip-window arguments; they differ only in the
\* closing palettegen/paletteuse stage (and the option naming the filter),
\* the palette input, the loop flag and the output path.
PassesShareFilterAndWindow ==
    CmdBuilt =>
        LET p == cmd_res.palette
            g == cmd_res.gif
        IN /\ p.prog = g.prog
           /\ p.prefix = g.prefix
           /\ p.input = g.input
           /\ p.pre = g.pre
           /\ p.post = g.post
           /\ p.stage.op = "palettegen" /\ g.stage.op = "paletteuse"
           /\ p.extra = <<>> /\ g.extra = <<p.out>>
           /\ p.loop = <<>> /\ Len(g.loop) = 1
           /\ p.out # g.out

\* A video clip with a start offset and a duration limit, scaled.
PassesShareWitness ==
    /\ CmdBuilt
    /\ cmd_req.encoder = "video_utils"
    /\ cmd_res.palette.pre = <<[flag |-> "-ss", v |-> 2]>>
    /\ cmd_res.gif.post = <<[flag |-> "-t", v |-> 4]>>
    /\ Len(cmd_res.gif.prefix) = 2

(***************************************************************************)
(* Claims about the external encode requests (SpecExt)                     *)
(***************************************************************************)
EmptyWindow(r) ==
    /\ r.encoder = "video_utils"
    /\ r.c.start_sec.some /\ r.c.end_sec.some
    /\ r.c.end_sec.v <= r.c.start_sec.v

\* C2: a video request whose clip window has end <= start gets an error,
\* and neither external pass is invoked for it.
EmptyWindowRunsNoPass ==
    \A s \in Sessions :
        EmptyWindow(sess[s].req) =>
            /\ sess[s].passes = <<>>
            /\ sess[s].pc = "done" => sess[s].result.kind = "error"

\* What of a failed pass's stderr must be in the error: all of it up to
\* 4000 characters, and a non-empty part of it beyond.
CarriesDiagnostics(err, run) ==
    /\ err.stage = run.stage
    /\ err.diag <= run.stderr
    /\ run.stderr > 0 => err.diag > 0
    /\ run.stderr <= 4000 => err.diag = run.stderr

NoFileOutlivesItsRequest ==
    \A s \in Sessions :
        sess[s].pc \in {"idle", "done"} =>
            \A f \in fs : f.by # s

(***************************************************************************)
(* Claims about overlapping requests (SpecExt)                             *)
(***************************************************************************)
InFlight(s) == sess[s].pc \in {"palette", "apply", "read"}

\* Every path the request of session s reads or writes: its input copies,
\* the palette and the output.
RequestPaths(s) ==
    LET r == sess[s].req
    IN InputFiles(r, TmpDir(s))
         \cup {PaletteCommand(r.c, TmpDir(s)).out,
               GifCommand(r.c, TmpDir(s)).out}

\* C11: two requests that overlap in time touch no common path, and the
\* bytes a request returns are the bytes it produced itself.
RequestsKeepPrivatePaths ==
    /\ \A s, t \in Sessions :
          (s # t /\ InFlight(s) /\ InFlight(t)) =>
              RequestPaths(s) \cap RequestPaths(t) = {}
    /\ \A s \in Sessions :
          sess[s].result.kind = "bytes" => sess[s].result.bytes_by = s

(***************************************************************************)
(* SpecEnc : one request to any of the four encoders                       *)
(***************************************************************************)
\* The request is either an image request (build_gif_from_images) or a
\* configuration of one of the three ffmpeg encoders.
EncInit ==
    /\ \/ /\ img_req \in {r \in ImgRequests :
                             r.via = "button" => r.files # <<>>}
          /\ cmd_req = Pending
       \/ /\ img_req = Pending
          /\ cmd_req \in VideoConfigs \cup FramesConfigs \cup AppVideoConfigs
    /\ img_res = Pending
    /\ cmd_res = Pending
    /\ q_req = Pending
    /\ q_res = Pending
    /\ sess = [s \in Sessions |-> IdleSession]
    /\ fs = {}

EncodeImages == img_req # Pending /\ ImgNext

EncodeExternal == cmd_req # Pending /\ BuildCommands

EncNext == EncodeImages \/ EncodeExternal

SpecEnc == EncInit /\ [][EncNext]_vars

(***************************************************************************)
(* Claims about the loop value (SpecEnc)                                   *)
(***************************************************************************)
\* The external contract of the loop value: 0 repeats for ever, -1 and 1
\* play once.
Infinite(v) == v = 0

Once(v) == v \in {-1, 1}

\* The request's loop flag and the loop value its encoder wrote, once an
\* output was written.
LoopWritten ==
    IF img_res.kind = "bytes"
    THEN <<[flag |-> img_req.loop_forever, value |-> img_res.gif.loop]>>
    ELSE IF cmd_res.kind = "built"
    THEN <<[flag |-> IF cmd_req.encoder = "video_utils"
                     THEN cmd_req.loop_forever
                     ELSE cmd_req.loop_infinite,
            value |-> cmd_res.gif.loop[1].v]>>
    ELSE <<>>

\* The loop value the same encoder writes for its default configuration
\* with the given flag.
ReferenceLoop(flag) ==
    IF img_res.kind = "bytes"
    THEN BuildGifFromImages(
             [via |-> "call", files |-> <<ImageFile(1, 1), ImageFile(1, 1)>>,
              delay |-> 1, loop_forever |-> flag, unify_canvas |-> TRUE,
              max_width |-> 0, colors |-> 64, ncol |-> 300,
              env |-> img_req.env]).gif.loop
    ELSE IF cmd_req.encoder = "video_utils"
    THEN VideoCmdGif([VideoDefault EXCEPT !.loop_forever = flag],
                     "tmp").loop[1].v
    ELSE IF cmd_req.encoder = "app_frames"
    THEN FramesCmdGif([FramesDefault EXCEPT !.loop_infinite = flag,
                                            !.exts = <<".png", ".png">>],
                      "tmp", OutputPath).loop[1].v
    ELSE AppVideoCmdGif([AppVideoDefault EXCEPT !.loop_infinite = flag],
                        "tmp", OutputPath).loop[1].v

\* C12: in each of the four encoders a set loop flag writes the value for
\* repeating for ever, a cleared one a value for playing once, the value
\* is the one the encoder writes for any other configuration with that
\* flag, and only the output-writing command carries a loop value.
LoopValueFollowsFlag ==
    /\ \A i \in 1..Len(LoopWritten) :
          LET w == LoopWritten[i]
          IN /\ w.flag => Infinite(w.value)
             /\ ~w.flag => Once(w.value)
             /\ w.value = ReferenceLoop(w.flag)
    /\ cmd_res.kind = "built" =>
          /\ Len(cmd_res.gif.loop) = 1
          /\ cmd_res.gif.loop[1].flag = "-loop"
          /\ cmd_res.palette.loop = <<>>

LoopValueWitness ==
    /\ img_res.kind = "bytes"
    /\ ~img_req.loop_forever
    /\ Len(img_req.files) = MaxFrames
    /\ img_res.gif.loop = 1

(***************************************************************************)
(* Claims about decoding failures (SpecImg)                                *)
(***************************************************************************)
\* k is the first position of the request whose file does not decode.
FailsFirstAt(k) ==
    /\ k \in 1..Len(img_req.files)
    /\ ~img_req.files[k].ok
    /\ \A j \in 1..(k - 1) : img_req.files[j].ok

\* C13: when the file at position k is the first that does not decode, the
\* call raises at k after decoding exactly the k - 1 files before it; no
\* frame list, palette or output bytes come out of it.
DecodeFailureAborts ==
    \A k \in 1..MaxFrames :
        (ImgDone /\ FailsFirstAt(k)) =>
            /\ img_res.kind = "raised"
            /\ img_res.error.at = k
            /\ img_res.decoded = k - 1
            /\ img_res.frames = <<>>
            /\ img_res.seed = NoSeed
            /\ img_res.gif = NoGif
            /\ img_res.ui \in {"-", "exception"}

DecodeFailureWitness ==
    /\ ImgDone
    /\ Len(img_req.files) = 3
    /\ FailsFirstAt(2)
    /\ img_req.files[3].ok
    /\ img_res.kind = "raised"
    /\ img_res.error.at = 2
    /\ img_res.decoded = 1

(***************************************************************************)
(* Claims about the clip window (SpecCmd)                                  *)
(***************************************************************************)
\* ffmpeg applies an option to the next file named after it on the command
\* line.  The options before "-i input" belong to the video input; those
\* between "-i input" and the next file belong to the palette input when
\* the command has that second "-i", and to the output otherwise.
VideoInputOptions(cmd) == cmd.pre

OutputOptions(cmd) == IF cmd.extra = <<>> THEN cmd.post ELSE <<>>

HasOpt(opts, flag) == \E i \in 1..Len(opts) : opts[i].flag = flag

OptValue(opts, flag) ==
    opts[CHOOSE i \in 1..Len(opts) : opts[i].flag = flag].v

\* The interval of the source a pass encodes, in half seconds: it starts
\* at the video input's -ss (0 without one) and runs for the -t, or up to
\* the -to, that limits the video input or the output; with neither it
\* runs to the end of the source (upto = None).
SourceWindow(cmd) ==
    LET from == IF HasOpt(VideoInputOptions(cmd), "-ss")
                THEN OptValue(VideoInputOptions(cmd), "-ss") ELSE 0
        lim == VideoInputOptions(cmd) \o OutputOptions(cmd)
    IN [from |-> from,
        upto |-> IF HasOpt(lim, "-t")
                 THEN Some(from + OptValue(lim, "-t"))
                 ELSE IF HasOpt(lim, "-to")
                 THEN Some(from + OptValue(lim, "-to"))
                 ELSE None]

HasArg(cmd, flag, v) ==
    \E i \in 1..Len(cmd.pre \o cmd.post) :
        (cmd.pre \o cmd.post)[i] = Opt(flag, v)

\* The palette pass of a clipped video request encodes exactly the window.
PalettePassKeepsWindow ==
    (CmdBuilt /\ cmd_req.encoder = "video_utils" /\ cmd_req.end_sec.some) =>
        LET start == cmd_req.start_sec
            stop == cmd_req.end_sec
        IN /\ (start.some /\ start.v >= 0 /\ stop.v > start.v) =>
                 SourceWindow(cmd_res.palette) =
                     [from |-> start.v, upto |-> Some(stop.v)]
           /\ (~start.some /\ stop.v > 0) =>
                 SourceWindow(cmd_res.palette) =
                     [from |-> 0, upto |-> Some(stop.v)]

\* C14: for a window with start >= 0 and end > start both passes carry
\* "-ss start" and "-t end - start" and encode the source from start to
\* end and nothing else; with only an end both encode from 0 to end.
ClipWindowLimitsBothPasses ==
    (CmdBuilt /\ cmd_req.encoder = "video_utils" /\ cmd_req.end_sec.some) =>
        LET start == cmd_req.start_sec
            stop == cmd_req.end_sec
        IN \A cmd \in {cmd_res.palette, cmd_res.gif} :
              /\ (start.some /\ start.v >= 0 /\ stop.v > start.v) =>
                    /\ HasArg(cmd, "-ss", start.v)
                    /\ HasArg(cmd, "-t", stop.v - start.v)
                    /\ SourceWindow(cmd) =
                           [from |-> start.v, upto |-> Some(stop.v)]
              /\ (~start.some /\ stop.v > 0) =>
                    SourceWindow(cmd) = [from |-> 0, upto |-> Some(stop.v)]

\* The arguments alone: what C14 says the passes are given.
ClipWindowArgsGiven ==
    (CmdBuilt /\ cmd_req.encoder = "video_utils" /\ cmd_req.end_sec.some) =>
        LET start == cmd_req.start_sec
            stop == cmd_req.end_sec
        IN \A cmd \in {cmd_res.palette, cmd_res.gif} :
              /\ (start.some /\ start.v >= 0 /\ stop.v > start.v) =>
                    /\ HasArg(cmd, "-ss", start.v)
                    /\ HasArg(cmd, "-t", stop.v - start.v)
              /\ (~start.some /\ stop.v > 0) =>
                    /\ HasArg(cmd, "-to", stop.v)
                    /\ ~HasOpt(cmd.pre, "-ss")

(***************************************************************************)
(* SpecSeed : _build_palette_seed_from_frames over long frame lists        *)
(***************************************************************************)
\* Longest frame list handed to the palette builder.
MaxSequence == 40

SeedInit ==
    /\ q_req \in [op : {"palette_seed"},
                  frames : {UnitFrames(n) : n \in 0..MaxSequence},
                  colors : {64},
                  ncol : ImageColours,
                  env : ImgEnvs]
    /\ q_res = Pending
    /\ img_req = Pending
    /\ img_res = Pending
    /\ cmd_req = Pending
    /\ cmd_res = Pending
    /\ sess = [s \in Sessions |-> IdleSession]
    /\ fs = {}

SeedNext == PaletteSeedCall

SpecSeed == SeedInit /\ [][SeedNext]_vars

(***************************************************************************)
(* Claims about the palette sample (SpecSeed)                              *)
(***************************************************************************)
\* A call of the palette builder on n >= 1 frames has returned or raised.
Sampled == q_res.kind # "pending" /\ q_req.frames # <<>>

SampleStep == Max(1, Len(q_req.frames) \div SampleCount)

\* C15: the picks are 0, step, 2*step, ... with step = max(1, n div 12),
\* cut after 12: each is an index below n, they start at 0 and increase
\* strictly, there are at most 12, and for n <= 12 every frame is picked.
PicksAreSteppedIndices ==
    Sampled =>
        LET n == Len(q_req.frames)
            picks == q_res.picks
        IN /\ Len(picks) >= 1
           /\ Len(picks) <= SampleCount
           /\ picks[1] = 0
           /\ \A k \in 1..Len(picks) :
                 /\ picks[k] = (k - 1) * SampleStep
                 /\ picks[k] \in 0..(n - 1)
           /\ \A k \in 1..(Len(picks) - 1) : picks[k] < picks[k + 1]
           /\ Len(picks) < SampleCount =>
                 picks[Len(picks)] + SampleStep >= n
           /\ n <= SampleCount => Range(picks) = 0..(n - 1)
           /\ Len(q_res.stack.parts) = Len(picks)
           /\ \A k \in 1..Len(picks) :
                 q_res.stack.parts[k] = q_req.frames[picks[k] + 1]

PicksTruncatedWitness ==
    /\ Sampled
    /\ Len(q_req.frames) = 25
    /\ Len(q_res.picks) = SampleCount
    /\ q_res.picks[SampleCount] = 22

\* C16: every frame index lies fewer than step positions after some pick.
PicksCoverSequence ==
    Sampled =>
        \A i \in 0..(Len(q_req.frames) - 1) :
            \E k \in 1..Len(q_res.picks) :
                /\ q_res.picks[k] <= i
                /\ i - q_res.picks[k] < SampleStep

(***************************************************************************)
(* Claims about the frames an image encoder is fed (SpecEnc)               *)
(***************************************************************************)
\* The files make_gif_from_frames writes for configuration c.
FramesWritten(c, tmp) ==
    InputFiles([encoder |-> "app_frames", c |-> c], tmp)

RECURSIVE ReadSequence(_, _, _, _)
\* What "-i <tmp>/%04d<ext>" reads: the files numbered i, i + 1, ... for
\* as long as the file with the next number and that extension exists.
\* The result lists the positions (from 1) of the frames read.
ReadSequence(files, tmp, ext, i) ==
    IF Path(tmp, FrameFileName(i, ext)) \in files
    THEN <<i + 1>> \o ReadSequence(files, tmp, ext, i + 1)
    ELSE <<>>

\* The positions of the supplied frames that reach the encoder, in the
\* order they reach it.
FramesFed ==
    IF img_res.kind = "bytes"
    THEN [k \in 1..Len(img_res.gif.frames) |-> img_res.gif.frames[k].id]
    ELSE ReadSequence(FramesWritten(cmd_req, cmd_res.gif.input.dir),
                      cmd_res.gif.input.dir, FirstExt(cmd_req.exts), 0)

FramesSupplied ==
    IF img_res.kind = "bytes" THEN Len(img_req.files)
    ELSE IF cmd_res.kind = "built" /\ cmd_req.encoder = "app_frames"
    THEN Len(cmd_req.exts)
    ELSE 0

\* C17: an image encoder given n >= 2 frames feeds exactly those n frames,
\* in the order supplied, to the output, whatever their extensions.
FramesFedInOrder ==
    FramesSupplied >= 2 =>
        FramesFed = [k \in 1..FramesSupplied |-> k]

\* build_gif_from_images alone keeps every frame in its place.
ImageFramesFedInOrder ==
    (img_res.kind = "bytes" /\ Len(img_req.files) >= 2) =>
        /\ FramesFed = [k \in 1..Len(img_req.files) |-> k]
        /\ img_res.seed.picks = [k \in 1..Len(img_req.files) |-> k - 1]

\* make_gif_from_frames keeps every frame when all extensions agree.
SameExtFramesFedInOrder ==
    (/\ cmd_res.kind = "built"
     /\ cmd_req.encoder = "app_frames"
     /\ Len(cmd_req.exts) >= 2
     /\ \A k \in 1..Len(cmd_req.exts) :
           FrameExt(cmd_req.exts[k]) = FirstExt(cmd_req.exts)) =>
        FramesFed = [k \in 1..Len(cmd_req.exts) |-> k]

=============================================================================
